---------------------------- MODULE Spec2Model ----------------------------
(***************************************************************************)
(* Model of the biometric upload pipeline: csv_api_sender.py               *)
(* (BiometricAPIProcessor, the CLI loop process_csv) and biometric_gui.py  *)
(* (the GUI worker upload_worker, start_upload and check_queue).           *)
(*                                                                         *)
(*   Spec         one run of the CLI loop or of the GUI worker,            *)
(*   SpecPayload  build_payload_from_rows called on the rows of one group, *)
(*   SpecGui      the interface thread interleaved with the worker,        *)
(*   SpecManual   the handlers of the manual list up to the grouping of a  *)
(*                manual run,                                              *)
(*   SpecResolver find_biometric_files and                                 *)
(*                build_payload_from_license_number called as              *)
(*                test_file_finding.py calls them.                         *)
(*                                                                         *)
(* Python strings that the code trims are sequences of one-character       *)
(* strings; file contents are sequences of bytes; a decoded JSON value is  *)
(* a tagged record; a dict is a function whose DOMAIN is its key set.      *)
(***************************************************************************)
EXTENDS Integers, Sequences, FiniteSets, TLC

VARIABLES
    app,                 \* "cli" (csv_api_sender.main) or "gui" (biometric_gui)
    input_mode,          \* BiometricUploaderGUI.input_mode: "csv" or "manual"
    csv_file,            \* the input CSV on disk: readable or not, and its rows
    files,               \* the file system: path -> state of the file
    biometric_dir,       \* the files of the configured biometric directory
    manual_numbers_list, \* BiometricUploaderGUI.manual_numbers_list
    pc,                  \* position of the run
    records,             \* local records of process_csv / upload_worker
    grouped_records,     \* local grouped_records, in dict order
    idx,                 \* number of loop iterations started
    results,             \* local results dict
    files_not_found,     \* BiometricAPIProcessor.files_not_found
    posts,               \* the POSTs issued so far, in order
    response,            \* what the last POST came back with
    result,              \* what send_to_api returned for the last POST
    message_queue,       \* BiometricUploaderGUI.message_queue
    built,               \* what the last call that built a payload returned
    api_url,             \* BiometricUploaderGUI.api_url
    is_processing,       \* BiometricUploaderGUI.is_processing
    upload_button,       \* state of BiometricUploaderGUI.upload_button
    workers,             \* worker threads started and not yet ended
    consumed,            \* messages check_queue handled since start_upload
    summary_labels,      \* what update_summary last wrote to the labels
    header_args,         \* args.header of main: the --header values
    exit_code,           \* exit status of the CLI process, NoExit while it runs
    file_mapping,        \* what find_biometric_files returned to the test script
    test_numero_carta    \* numero_carta of test_file_finding.py

vars == <<app, input_mode, csv_file, files, biometric_dir, manual_numbers_list,
          pc, records, grouped_records, idx, results, files_not_found, posts,
          response, result, message_queue, built, api_url, is_processing,
          upload_button, workers, consumed, summary_labels, header_args,
          exit_code, file_mapping, test_numero_carta>>

-----------------------------------------------------------------------------
(* Bounds *)

MaxRows == 3

-----------------------------------------------------------------------------
(* Python strings and dicts *)

Whitespace == {" ", "\t", "\n"}

RECURSIVE lstrip(_)
lstrip(s) ==
    IF s # <<>> /\ Head(s) \in Whitespace THEN lstrip(Tail(s)) ELSE s

RECURSIVE rstrip(_)
rstrip(s) ==
    IF s # <<>> /\ s[Len(s)] \in Whitespace
    THEN rstrip(SubSeq(s, 1, Len(s) - 1))
    ELSE s

\* str.strip()
strip(s) == rstrip(lstrip(s))

EmptyDict == [k \in {} |-> <<>>]

\* dict.get(key, default)
Get(d, key, default) == IF key \in DOMAIN d THEN d[key] ELSE default

\* d[key] = value
Put(d, key, value) ==
    [k \in DOMAIN d \cup {key} |-> IF k = key THEN value ELSE d[k]]

-----------------------------------------------------------------------------
(* Decoded JSON values (what response.json() returns) *)

JNull == [t |-> "null"]
JNum(n) == [t |-> "num", n |-> n]
JStr(s) == [t |-> "str", s |-> s]
JList(l) == [t |-> "list", l |-> l]
JObj(m) == [t |-> "obj", m |-> m]

\* isinstance(j, dict): only these have a .get method
IsDict(j) == j.t = "obj"

\* j.get(key, default) on a dict
JGet(j, key, default) == IF key \in DOMAIN j.m THEN j.m[key] ELSE default

\* bool(j)
Truthy(j) ==
    CASE j.t = "null" -> FALSE
      [] j.t = "num" -> j.n # 0
      [] j.t = "str" -> j.s # ""
      [] j.t = "list" -> j.l # <<>>
      [] j.t = "obj" -> DOMAIN j.m # {}

\* ', '.join(j) succeeds: an iterable of strings
Joinable(j) ==
    CASE j.t = "str" -> TRUE
      [] j.t = "list" -> \A i \in DOMAIN j.l : j.l[i].t = "str"
      [] j.t = "obj" -> TRUE
      [] OTHER -> FALSE

\* len(j) succeeds
HasLen(j) == j.t \in {"str", "list", "obj"}

-----------------------------------------------------------------------------
(* base64.b64encode(bytes).decode('utf-8') *)

B64Alphabet ==
    <<"A","B","C","D","E","F","G","H","I","J","K","L","M","N","O","P",
      "Q","R","S","T","U","V","W","X","Y","Z","a","b","c","d","e","f",
      "g","h","i","j","k","l","m","n","o","p","q","r","s","t","u","v",
      "w","x","y","z","0","1","2","3","4","5","6","7","8","9","+","/">>

B64Char(n) == B64Alphabet[n + 1]

RECURSIVE b64encode(_)
b64encode(bytes) ==
    IF Len(bytes) = 0 THEN <<>>
    ELSE IF Len(bytes) = 1 THEN
        <<B64Char(bytes[1] \div 4), B64Char((bytes[1] % 4) * 16), "=", "=">>
    ELSE IF Len(bytes) = 2 THEN
        <<B64Char(bytes[1] \div 4),
          B64Char((bytes[1] % 4) * 16 + bytes[2] \div 16),
          B64Char((bytes[2] % 16) * 4), "=">>
    ELSE
        <<B64Char(bytes[1] \div 4),
          B64Char((bytes[1] % 4) * 16 + bytes[2] \div 16),
          B64Char((bytes[2] % 16) * 4 + bytes[3] \div 64),
          B64Char(bytes[3] % 64)>>
        \o b64encode(SubSeq(bytes, 4, Len(bytes)))

-----------------------------------------------------------------------------
(* BiometricAPIProcessor: class constants *)

BIOMETRIA_TYPE_MAPPING ==
    [k \in {<<"1">>, <<"2">>, <<"3">>, <<"4">>} |->
        CASE k = <<"1">> -> "fileFace"
          [] k = <<"2">> -> "fileSign"
          [] k = <<"3">> -> "filesFinger1"
          [] k = <<"4">> -> "filesFinger2"]

\* FIELD_MAPPING.items(), in dict order
FIELD_MAPPING ==
    << [api_field |-> "fileFace",
        options |-> <<"fileFace", "face_img", "face", "faceImage">>],
       [api_field |-> "fileSign",
        options |-> <<"fileSign", "signature", "sign", "signImage">>],
       [api_field |-> "filesFinger1",
        options |-> <<"filesFinger1", "fingerprint1", "finger1", "fp1">>],
       [api_field |-> "filesFinger2",
        options |-> <<"filesFinger2", "fingerprint2", "finger2", "fp2">>] >>

-----------------------------------------------------------------------------
(* file_to_base64: the file system maps a path to                          *)
(*   [kind |-> "data", bytes |-> ...]  a readable file,                    *)
(*   [kind |-> "denied"]               open() raises another exception;    *)
(* a path outside DOMAIN files raises FileNotFoundError.                   *)
(* Returns the value (none = TRUE for None) and the new files_not_found.   *)

file_to_base64(fs, fnf, file_path) ==
    IF file_path \notin DOMAIN fs
    THEN [none |-> TRUE, data |-> <<>>, fnf |-> Append(fnf, file_path)]
    ELSE IF fs[file_path].kind = "data"
    THEN [none |-> FALSE, data |-> b64encode(fs[file_path].bytes), fnf |-> fnf]
    ELSE [none |-> TRUE, data |-> <<>>, fnf |-> fnf]

-----------------------------------------------------------------------------
(* build_payload_from_rows *)

\* a variant that takes a value of blanks for a value
RECURSIVE FirstOption_Blank(_, _, _)
FirstOption_Blank(row, options, i) ==
    IF i > Len(options) THEN 0
    ELSE IF options[i] \in DOMAIN row /\ row[options[i]] # <<>>
    THEN i
    ELSE FirstOption_Blank(row, options, i + 1)

\* the inner loop "for csv_field in csv_field_options": the first alias that
\* is in the row with a value that is non-empty after strip(); 0 when none
RECURSIVE FirstOption(_, _, _)
FirstOption(row, options, i) ==
    IF i > Len(options) THEN 0
    ELSE IF options[i] \in DOMAIN row /\ row[options[i]] # <<>>
            /\ strip(row[options[i]]) # <<>>
    THEN i
    ELSE FirstOption(row, options, i + 1)

\* a variant that stores the value of the column as it is
RECURSIVE DirectFields_NoStrip(_, _, _)
DirectFields_NoStrip(row, payload, f) ==
    IF f > Len(FIELD_MAPPING) THEN payload
    ELSE
        LET fm == FIELD_MAPPING[f]
            i == FirstOption(row, fm.options, 1)
        IN  DirectFields_NoStrip(row,
                IF i = 0 THEN payload
                ELSE Put(payload, fm.api_field, row[fm.options[i]]),
                f + 1)

\* Format 2: "for api_field, csv_field_options in FIELD_MAPPING.items()"
RECURSIVE DirectFields(_, _, _)
DirectFields(row, payload, f) ==
    IF f > Len(FIELD_MAPPING) THEN payload
    ELSE
        LET fm == FIELD_MAPPING[f]
            i == FirstOption(row, fm.options, 1)
        IN  DirectFields(row,
                IF i = 0 THEN payload
                ELSE Put(payload, fm.api_field, strip(row[fm.options[i]])),
                f + 1)

\* the api fields a Format 2 row stores
DirectFieldsOf(row) ==
    {FIELD_MAPPING[f].api_field :
        f \in {g \in DOMAIN FIELD_MAPPING :
                    FirstOption(row, FIELD_MAPPING[g].options, 1) # 0}}

\* a variant that reads the embedded values of a row that is not active
PayloadRow_InactiveDirect(fs, st, row) ==
    IF "Tipo_Biometria" \in DOMAIN row /\ "Caminho_Completo" \in DOMAIN row
    THEN
        LET tipo == strip(Get(row, "Tipo_Biometria", <<>>))
            file_path == strip(Get(row, "Caminho_Completo", <<>>))
            is_active == strip(Get(row, "Is_Active", <<"1">>))
        IN  IF is_active # <<"1">>
            THEN [st EXCEPT !.payload = DirectFields(row, st.payload, 1),
                            !.modes = IF DirectFieldsOf(row) # {}
                                      THEN @ \cup {"direct"} ELSE @]
            ELSE IF tipo \in DOMAIN BIOMETRIA_TYPE_MAPPING /\ file_path # <<>>
            THEN
                LET api_field == BIOMETRIA_TYPE_MAPPING[tipo]
                    r == file_to_base64(fs, st.fnf, file_path)
                IN  IF ~r.none /\ r.data # <<>>
                    THEN [payload |-> Put(st.payload, api_field, r.data),
                          fnf |-> r.fnf, modes |-> st.modes \cup {"typed"}]
                    ELSE [st EXCEPT !.fnf = r.fnf]
            ELSE st
    ELSE [st EXCEPT !.payload = DirectFields(row, st.payload, 1),
                    !.modes = IF DirectFieldsOf(row) # {}
                              THEN @ \cup {"direct"} ELSE @]

\* a variant that takes every typed row for an active one
PayloadRow_IgnoreActive(fs, st, row) ==
    IF "Tipo_Biometria" \in DOMAIN row /\ "Caminho_Completo" \in DOMAIN row
    THEN
        LET tipo == strip(Get(row, "Tipo_Biometria", <<>>))
            file_path == strip(Get(row, "Caminho_Completo", <<>>))
        IN  IF tipo \in DOMAIN BIOMETRIA_TYPE_MAPPING /\ file_path # <<>>
            THEN
                LET api_field == BIOMETRIA_TYPE_MAPPING[tipo]
                    r == file_to_base64(fs, st.fnf, file_path)
                IN  IF ~r.none /\ r.data # <<>>
                    THEN [payload |-> Put(st.payload, api_field, r.data),
                          fnf |-> r.fnf, modes |-> st.modes \cup {"typed"}]
                    ELSE [st EXCEPT !.fnf = r.fnf]
            ELSE st
    ELSE [st EXCEPT !.payload = DirectFields(row, st.payload, 1),
                    !.modes = IF DirectFieldsOf(row) # {}
                              THEN @ \cup {"direct"} ELSE @]

\* One iteration of "for row in rows", on the state [payload, fnf, modes]:
\* modes is the set of branches ("typed" for Format 1, "direct" for
\* Format 2) that have stored a field in the payload so far.
PayloadRow(fs, st, row) ==
    IF "Tipo_Biometria" \in DOMAIN row /\ "Caminho_Completo" \in DOMAIN row
    THEN
        LET tipo == strip(Get(row, "Tipo_Biometria", <<>>))
            file_path == strip(Get(row, "Caminho_Completo", <<>>))
            is_active == strip(Get(row, "Is_Active", <<"1">>))
        IN  IF is_active # <<"1">> THEN st
            ELSE IF tipo \in DOMAIN BIOMETRIA_TYPE_MAPPING /\ file_path # <<>>
            THEN
                LET api_field == BIOMETRIA_TYPE_MAPPING[tipo]
                    r == file_to_base64(fs, st.fnf, file_path)
                IN  IF ~r.none /\ r.data # <<>>
                    THEN [payload |-> Put(st.payload, api_field, r.data),
                          fnf |-> r.fnf, modes |-> st.modes \cup {"typed"}]
                    ELSE [st EXCEPT !.fnf = r.fnf]
            ELSE st
    ELSE [st EXCEPT !.payload = DirectFields(row, st.payload, 1),
                    !.modes = IF DirectFieldsOf(row) # {}
                              THEN @ \cup {"direct"} ELSE @]

RECURSIVE PayloadRows(_, _, _, _)
PayloadRows(fs, st, rows, i) ==
    IF i > Len(rows) THEN st
    ELSE PayloadRows(fs, PayloadRow(fs, st, rows[i]), rows, i + 1)

\* returns the payload and the processor's files_not_found after the call
build_payload_from_rows(fs, fnf, rows) ==
    PayloadRows(fs, [payload |-> EmptyDict, fnf |-> fnf, modes |-> {}], rows, 1)


-----------------------------------------------------------------------------
(* group_by_license: the defaultdict as a sequence of                      *)
(* [numero_carta, rows] entries in insertion order                         *)

\* a variant that never finds the key
KeyIndex_None(grouped, numero_carta) == 0

KeyIndex(grouped, numero_carta) ==
    IF \E i \in DOMAIN grouped : grouped[i].numero_carta = numero_carta
    THEN CHOOSE i \in DOMAIN grouped : grouped[i].numero_carta = numero_carta
    ELSE 0

\* a variant that re-inserts the group of a repeated identifier at the end
GroupAppend_MoveToEnd(grouped, numero_carta, record) ==
    LET i == KeyIndex(grouped, numero_carta)
    IN  IF i = 0
        THEN Append(grouped, [numero_carta |-> numero_carta, rows |-> <<record>>])
        ELSE Append(SubSeq(grouped, 1, i - 1) \o SubSeq(grouped, i + 1, Len(grouped)),
                    [numero_carta |-> numero_carta,
                     rows |-> Append(grouped[i].rows, record)])

\* grouped[numero_carta].append(record)
GroupAppend(grouped, numero_carta, record) ==
    LET i == KeyIndex(grouped, numero_carta)
    IN  IF i = 0
        THEN Append(grouped, [numero_carta |-> numero_carta, rows |-> <<record>>])
        ELSE [grouped EXCEPT ![i].rows = Append(@, record)]

\* a variant that groups by the raw value, without strip()
GroupRecord_NoStrip(grouped, record) ==
    LET numero_carta == Get(record, "Numero_Carta", <<>>)
    IN  IF numero_carta # <<>>
        THEN GroupAppend(grouped, numero_carta, record)
        ELSE grouped

\* one iteration of "for record in records"
GroupRecord(grouped, record) ==
    LET numero_carta == strip(Get(record, "Numero_Carta", <<>>))
    IN  IF numero_carta # <<>>
        THEN GroupAppend(grouped, numero_carta, record)
        ELSE grouped

RECURSIVE GroupRecords(_, _, _)
GroupRecords(grouped, recs, i) ==
    IF i > Len(recs) THEN grouped
    ELSE GroupRecords(GroupRecord(grouped, recs[i]), recs, i + 1)

group_by_license(recs) == GroupRecords(<<>>, recs, 1)

-----------------------------------------------------------------------------
(* send_to_api.  A POST comes back as                                      *)
(*   [kind |-> "timeout" | "connection_error" | "request_exception"], or   *)
(*   [kind |-> "response", status_code, text, json] where text is          *)
(*     "empty"    response.text is '',                                     *)
(*     "json"     response.json() returns the value json,                  *)
(*     "invalid_requests"  response.json() raises                          *)
(*                requests.exceptions.JSONDecodeError (requests >= 2.27,   *)
(*                a RequestException),                                     *)
(*     "invalid_json"      response.json() raises json.JSONDecodeError.    *)
(* The value is [raised |-> FALSE, value |-> the returned dict] or         *)
(* [raised |-> TRUE, exc |-> the exception that leaves send_to_api].       *)

Returned(d) == [raised |-> FALSE, value |-> d]
Raised(e) == [raised |-> TRUE, exc |-> e]

FStr(fmt, arg) == [t |-> "fstr", fmt |-> fmt, arg |-> arg]

\* the branches on response.status_code, response_data already decoded
Classify(status_code, response_data) ==
    IF status_code = 201 THEN
        Returned([status |-> "success", status_code |-> status_code,
                  response |-> response_data])
    ELSE IF status_code = 400 THEN
        IF ~IsDict(response_data) THEN Raised("AttributeError")
        ELSE IF ~IsDict(JGet(response_data, "status", JObj(EmptyDict)))
        THEN Raised("AttributeError")
        ELSE
            LET message ==
                    JGet(JGet(response_data, "status", JObj(EmptyDict)), "message",
                         JGet(response_data, "message",
                              JStr("No new biometric data provided")))
            IN  Returned([status |-> "skipped", status_code |-> status_code,
                          error |-> message, response |-> response_data])
    ELSE IF status_code = 404 THEN
        Returned([status |-> "config_error", status_code |-> status_code,
                  error |-> JStr("API endpoint not found - check API URL configuration"),
                  response |-> response_data])
    ELSE IF status_code = 500 THEN
        IF ~IsDict(response_data) THEN Raised("AttributeError")
        ELSE
            LET message == JGet(response_data, "message", JStr("Server error occurred"))
            IN  Returned([status |-> "server_error", status_code |-> status_code,
                          error |-> FStr("Server error: {}", message),
                          response |-> response_data])
    ELSE
        IF ~IsDict(response_data) THEN Raised("AttributeError")
        ELSE Returned([status |-> "error", status_code |-> status_code,
                       error |-> JGet(response_data, "message",
                                      FStr("HTTP {} error", JNum(status_code))),
                       response |-> response_data])

send_to_api(numero_carta, payload, resp) ==
    IF resp.kind = "timeout" THEN
        Returned([status |-> "error",
                  error |-> JStr("Request timeout (30s exceeded)")])
    ELSE IF resp.kind = "connection_error" THEN
        Returned([status |-> "error",
                  error |-> JStr("Connection error - unable to reach API")])
    ELSE IF resp.kind = "request_exception" THEN
        Returned([status |-> "error", error |-> JStr("str(e)")])
    ELSE IF resp.text = "empty" THEN
        Classify(resp.status_code, JObj(EmptyDict))
    ELSE IF resp.text = "invalid_requests" THEN
        Returned([status |-> "error", error |-> JStr("str(e)")])
    ELSE IF resp.text = "invalid_json" THEN
        Returned([status |-> "error",
                  error |-> JStr("Invalid JSON response from API")])
    ELSE
        Classify(resp.status_code, resp.json)


-----------------------------------------------------------------------------
(* The results dict *)

\* results = {'total_csv_rows': ..., 'total_drivers': ..., 'success': 0, ...}
NewResults(total_csv_rows, total_drivers) ==
    [total_csv_rows |-> total_csv_rows, total_drivers |-> total_drivers,
     success |-> 0, failed |-> 0, skipped |-> 0, details |-> <<>>]

\* results[counter] += 1
Incr(res, counter) == [res EXCEPT ![counter] = @ + 1]

\* results['details'].append(detail)
AddDetail(res, detail) == [res EXCEPT !.details = Append(@, detail)]

Done(res) == [raised |-> FALSE, results |-> res]
Failed(res, e) == [raised |-> TRUE, exc |-> e, results |-> res]

-----------------------------------------------------------------------------
(* process_csv: the branches on result['status'] of one loop iteration.    *)
(* r is the dict send_to_api returned; the value is the results dict       *)
(* afterwards, and whether an exception left the loop body.                *)

\* a variant that puts the created files in the opposite order
FilesCreated_Reversed(api_status) ==
    LET files_created == JGet(api_status, "files_created", JList(<<>>))
    IN  IF files_created.t = "list"
        THEN JList([k \in DOMAIN files_created.l |->
                        files_created.l[Len(files_created.l) + 1 - k]])
        ELSE files_created

\* files_created = api_status.get('files_created', [])
FilesCreated(api_status) == JGet(api_status, "files_created", JList(<<>>))

ProcessCsvSuccess(res, i, numero_carta, rows, r) ==
    LET res1 == Incr(res, "success")
        resp == Get(r, "response", JObj(EmptyDict))
    IN  IF ~IsDict(resp) THEN Failed(res1, "AttributeError")
        ELSE
        LET api_status == JGet(resp, "status", JObj(EmptyDict))
        IN  IF ~IsDict(api_status) THEN Failed(res1, "AttributeError")
            ELSE
            LET files_created == FilesCreated(api_status)
                files_updated == JGet(api_status, "files_updated", JList(<<>>))
                files_missing == JGet(api_status, "files_missing", JList(<<>>))
            IN  IF \/ Truthy(files_created) /\ ~Joinable(files_created)
                   \/ Truthy(files_updated) /\ ~Joinable(files_updated)
                   \/ Truthy(files_missing) /\ ~Joinable(files_missing)
                THEN Failed(res1, "TypeError")
                ELSE Done(AddDetail(res1,
                        [driver |-> i, numero_carta |-> numero_carta,
                         status |-> "success",
                         files_created |-> files_created,
                         files_updated |-> files_updated,
                         files_missing |-> files_missing,
                         csv_rows |-> Len(rows)]))

ProcessCsvResult(res, i, numero_carta, rows, r) ==
    IF r.status = "success" THEN
        ProcessCsvSuccess(res, i, numero_carta, rows, r)
    ELSE IF r.status = "skipped" THEN
        Done(AddDetail(Incr(res, "skipped"),
            [driver |-> i, numero_carta |-> numero_carta, status |-> "skipped",
             error |-> Get(r, "error", JStr("No new biometric data provided")),
             csv_rows |-> Len(rows)]))
    ELSE IF r.status = "config_error" THEN
        Done(AddDetail(Incr(res, "failed"),
            [driver |-> i, numero_carta |-> numero_carta,
             status |-> "config_error",
             error |-> Get(r, "error", JStr("API endpoint not found")),
             csv_rows |-> Len(rows)]))
    ELSE IF r.status = "server_error" THEN
        Done(AddDetail(Incr(res, "failed"),
            [driver |-> i, numero_carta |-> numero_carta,
             status |-> "server_error",
             error |-> Get(r, "error", JStr("Server error occurred")),
             csv_rows |-> Len(rows)]))
    ELSE
        Done(AddDetail(Incr(res, "failed"),
            [driver |-> i, numero_carta |-> numero_carta, status |-> "failed",
             error |-> Get(r, "error", JStr("Unknown error")),
             response |-> Get(r, "response", JObj(EmptyDict)),
             csv_rows |-> Len(rows)]))

\* a variant that counts an empty payload as failed
ProcessCsvNoPayload_Failed(res, i, numero_carta, rows) ==
    AddDetail(Incr(res, "failed"),
        [driver |-> i, numero_carta |-> numero_carta, status |-> "failed",
         error |-> JStr("No biometric data available"),
         csv_rows |-> Len(rows)])

\* "if not payload": an empty payload is skipped without a POST
ProcessCsvNoPayload(res, i, numero_carta, rows) ==
    AddDetail(Incr(res, "skipped"),
        [driver |-> i, numero_carta |-> numero_carta, status |-> "skipped",
         error |-> JStr("No biometric data available"),
         csv_rows |-> Len(rows)])

\* "if not numero_carta"
ProcessCsvNoNumber(res, i) ==
    AddDetail(Incr(res, "skipped"),
        [driver |-> i, numero_carta |-> JNull, status |-> "skipped",
         error |-> JStr("Missing license number")])

-----------------------------------------------------------------------------
(* upload_worker: the same branches in the GUI loop.  The value also       *)
(* carries the messages put on the queue by the branch.                    *)

Status(text, tag) == [type |-> "status", text |-> text, tag |-> tag]

GuiDone(res, msgs) == [raised |-> FALSE, results |-> res, msgs |-> msgs]
GuiFailed(res, e) == [raised |-> TRUE, exc |-> e, results |-> res, msgs |-> <<>>]

UploadWorkerSuccess(res, i, n, numero_carta, r) ==
    LET res1 == Incr(res, "success")
        resp == Get(r, "response", JObj(EmptyDict))
    IN  IF ~IsDict(resp) THEN GuiFailed(res1, "AttributeError")
        ELSE
        LET api_status == JGet(resp, "status", JObj(EmptyDict))
        IN  IF ~IsDict(api_status) THEN GuiFailed(res1, "AttributeError")
            ELSE
            LET files_created == FilesCreated(api_status)
                files_updated == JGet(api_status, "files_updated", JList(<<>>))
            IN  IF ~HasLen(files_created) \/ ~HasLen(files_updated)
                THEN GuiFailed(res1, "TypeError")
                ELSE GuiDone(
                        AddDetail(res1,
                            [numero_carta |-> numero_carta, status |-> "success",
                             files_created |-> files_created,
                             files_updated |-> files_updated]),
                        <<Status([fmt |-> "SUCCESS", idx |-> i, of |-> n,
                                  numero_carta |-> numero_carta], "success")>>)

\* a variant without the branch for 'skipped'
UploadWorkerResult_NoSkipped(res, i, n, numero_carta, r) ==
    IF r.status = "success" THEN
        UploadWorkerSuccess(res, i, n, numero_carta, r)
    ELSE
        LET error == Get(r, "error", JStr("Unknown error"))
        IN  GuiDone(
                AddDetail(Incr(res, "failed"),
                    [numero_carta |-> numero_carta, status |-> "failed",
                     error |-> error]),
                <<Status([fmt |-> "FAILED", idx |-> i, of |-> n,
                          numero_carta |-> numero_carta, error |-> error], "error")>>)

UploadWorkerResult(res, i, n, numero_carta, r) ==
    IF r.status = "success" THEN
        UploadWorkerSuccess(res, i, n, numero_carta, r)
    ELSE IF r.status = "skipped" THEN
        GuiDone(Incr(res, "skipped"),
                <<Status([fmt |-> "SKIPPED", idx |-> i, of |-> n,
                          numero_carta |-> numero_carta,
                          error |-> Get(r, "error", JStr("No data"))], "warning")>>)
    ELSE
        LET error == Get(r, "error", JStr("Unknown error"))
        IN  GuiDone(
                AddDetail(Incr(res, "failed"),
                    [numero_carta |-> numero_carta, status |-> "failed",
                     error |-> error]),
                <<Status([fmt |-> "FAILED", idx |-> i, of |-> n,
                          numero_carta |-> numero_carta, error |-> error], "error")>>)

\* the except clause of upload_worker
UploadWorkerExcept(e) ==
    << Status([fmt |-> "ERROR", exc |-> e], "error"),
       [type |-> "complete", results |-> "{}"] >>


-----------------------------------------------------------------------------
(* Manual mode of the GUI.  The directory is                               *)
(* [exists, listing], listing a sequence of files [marker, name, bytes]:   *)
(* marker is the category token of the file name, name the rest of it.     *)

MARKERS ==
    << [api_field |-> "fileFace", marker |-> "FOTO"],
       [api_field |-> "fileSign", marker |-> "ASSINATURA"],
       [api_field |-> "filesFinger1", marker |-> "IMPRESSAO_DIGITAL_1"],
       [api_field |-> "filesFinger2", marker |-> "IMPRESSAO_DIGITAL_2"] >>

\* sub in s
Contains(s, sub) ==
    \E k \in 0..(Len(s) - Len(sub)) : SubSeq(s, k + 1, k + Len(sub)) = sub

\* a variant that takes the first file of the category, whatever identifier
\* its name holds
FirstMatch_AnyIdentifier(listing, marker, numero_carta) ==
    LET hits == {k \in DOMAIN listing : listing[k].marker = marker}
    IN  IF hits = {} THEN 0 ELSE CHOOSE k \in hits : \A h \in hits : k <= h

\* index of the first file of the listing for a category and identifier, or 0
FirstMatch(listing, marker, numero_carta) ==
    LET hits == {k \in DOMAIN listing :
                    listing[k].marker = marker
                    /\ Contains(listing[k].name, numero_carta)}
    IN  IF hits = {} THEN 0 ELSE CHOOSE k \in hits : \A h \in hits : k <= h

\* the api fields that resolve to a file
find_biometric_files(dir, numero_carta) ==
    IF ~dir.exists THEN {}
    ELSE {f \in DOMAIN MARKERS :
            FirstMatch(dir.listing, MARKERS[f].marker, numero_carta) # 0}

build_payload_from_license_number(dir, fnf, numero_carta) ==
    LET found == find_biometric_files(dir, numero_carta)
        Data(f) == b64encode(
            dir.listing[FirstMatch(dir.listing, MARKERS[f].marker,
                                   numero_carta)].bytes)
        keep == {f \in found : Data(f) # <<>>}
    IN  [payload |-> [a \in {MARKERS[f].api_field : f \in keep} |->
                        Data(CHOOSE f \in keep : MARKERS[f].api_field = a)],
         fnf |-> IF dir.exists THEN fnf ELSE Append(fnf, numero_carta),
         modes |-> IF keep # {} THEN {"files"} ELSE {}]

\* grouped_records = {numero: [] for numero in self.manual_numbers_list}
RECURSIVE ManualGroups(_, _, _)
ManualGroups(grouped, list, i) ==
    IF i > Len(list) THEN grouped
    ELSE ManualGroups(
            IF KeyIndex(grouped, list[i]) = 0
            THEN Append(grouped, [numero_carta |-> list[i], rows |-> <<>>])
            ELSE grouped,
            list, i + 1)

-----------------------------------------------------------------------------
(* Inputs *)

BoundedSeq(S, n) == UNION {[1..k -> S] : k \in 0..n}

\* Rows of the input CSV, as csv.DictReader yields them: every row of one
\* file has the columns of the header of that file.
\* header Numero_Carta,fileFace
DirectRows ==
    { [Numero_Carta |-> <<"A">>, fileFace |-> <<"x">>],
      [Numero_Carta |-> <<" ", "A", " ">>, fileFace |-> <<" ">>],
      [Numero_Carta |-> <<"B">>, fileFace |-> <<"x">>],
      [Numero_Carta |-> <<" ">>, fileFace |-> <<"x">>] }

\* header Numero_Carta,Tipo_Biometria,Caminho_Completo,Is_Active
TypedRows ==
    { [Numero_Carta |-> <<"B">>, Tipo_Biometria |-> <<"1">>,
       Caminho_Completo |-> <<"p">>, Is_Active |-> <<"1">>] }

\* header numero_carta,fileFace: the identifier column under an alias
AliasRows ==
    { [numero_carta |-> <<"A">>, fileFace |-> <<"x">>] }

\* the rows of each sample file
SampleRows == {DirectRows, TypedRows, AliasRows}

\* the path names no file
NoCsv == [exists |-> FALSE, readable |-> FALSE, rows |-> <<>>]

\* the file exists and csv.DictReader fails on it
BadCsv == [exists |-> TRUE, readable |-> FALSE, rows |-> <<>>]

CsvFiles ==
    {NoCsv, BadCsv}
    \cup {[exists |-> TRUE, readable |-> TRUE, rows |-> rs] :
            rs \in UNION {BoundedSeq(R, MaxRows) : R \in SampleRows}}

NoFiles == [path \in {} |-> [kind |-> "denied"]]

FileSystems ==
    { NoFiles,
      [path \in {<<"p">>} |-> [kind |-> "data", bytes |-> <<255, 216>>]],
      [path \in {<<"p">>} |-> [kind |-> "denied"]] }

NoDir == [exists |-> FALSE, listing |-> <<>>]

BiometricDirs ==
    { NoDir,
      [exists |-> TRUE,
       listing |-> << [marker |-> "FOTO", name |-> <<"_", "A", "_">>,
                       bytes |-> <<255>>] >>] }

\* the queue as add_manual_numbers leaves it: trimmed, non-empty, no duplicates
ManualLists == { <<<<"A">>>>, <<<<"B">>>>, <<<<"A">>, <<"B">>>>, <<<<"B">>, <<"A">>>> }

BodyOf(text, json) == [text |-> text, json |-> json]

Bodies ==
    { BodyOf("empty", JNull),
      BodyOf("invalid_requests", JNull),
      BodyOf("invalid_json", JNull),
      BodyOf("json", JObj([status |->
            JObj([message |-> JStr("s"),
                  files_created |-> JList(<<JStr("sign"), JStr("face")>>),
                  files_missing |-> JList(<<JStr("finger1")>>)])])),
      BodyOf("json", JObj([status |-> JStr("ok")])),
      BodyOf("json", JList(<<>>)) }

StatusCodes == {201, 400, 404, 500, 503}

Responses ==
    { [kind |-> k] : k \in {"timeout", "connection_error", "request_exception"} }
    \cup
    { [kind |-> "response", status_code |-> c, text |-> b.text, json |-> b.json] :
        c \in StatusCodes, b \in Bodies }

NoResponse == [kind |-> "none"]
NoResult == Returned([status |-> "none"])


-----------------------------------------------------------------------------
(* The run.  pc is                                                          *)
(*   "idle"     no worker thread has been started since the last run,      *)
(*   "start"    process_csv called / the worker thread started,            *)
(*   "loop"     inside "for idx, (numero_carta, rows) in enumerate(...)",  *)
(*   "done"     process_csv returned results / the worker put 'complete'   *)
(*              with results,                                              *)
(*   "exited"   read_csv called sys.exit(1),                               *)
(*   "crashed"  CLI: an exception propagated out of process_csv,           *)
(*   "aborted"  GUI: the except clause put 'complete' with {},             *)
(*   "call", "returned", "returned_twice"  before and after a first and   *)
(*              a second call of build_payload_from_rows on its own.      *)

\* some row names a file
ReferencesFiles(rows) ==
    \E i \in DOMAIN rows : "Caminho_Completo" \in DOMAIN rows[i]

\* what a call that builds a payload leaves in the caller's hands
Built(b) == [payload |-> b.payload, modes |-> b.modes]

NoBuilt == [payload |-> EmptyDict, modes |-> {}]

\* update_summary: the values written to the four labels
update_summary(res) ==
    [total |-> res.total_drivers, success |-> res.success,
     failed |-> res.failed, skipped |-> res.skipped]

\* update_summary({'total_drivers': 0, 'success': 0, 'failed': 0, 'skipped': 0})
ZeroLabels == update_summary(NewResults(0, 0))

Inputs == <<app, input_mode, csv_file, files, biometric_dir, manual_numbers_list,
            api_url, header_args, test_numero_carta>>

\* the values of --header: one 'Key: Value', or one without a colon
NoHeaders == <<>>

HeaderArgs == { << <<"K", ":", "V">> >>, << <<"K", "V">> >> }

\* nothing resolved
NoMapping == {}

\* the process has not ended
NoExit == -1

\* the state of the interface thread
Interface == <<is_processing, upload_button, consumed, summary_labels>>

Init ==
    /\ app \in {"cli", "gui"}
    /\ input_mode \in IF app = "cli" THEN {"csv"} ELSE {"csv", "manual"}
    /\ csv_file \in IF input_mode = "csv" THEN CsvFiles ELSE {NoCsv}
    /\ files \in IF ReferencesFiles(csv_file.rows) THEN FileSystems ELSE {NoFiles}
    /\ biometric_dir \in IF input_mode = "manual" THEN BiometricDirs ELSE {NoDir}
    /\ manual_numbers_list \in IF input_mode = "manual" THEN ManualLists ELSE {<<>>}
    /\ api_url = "u"
    /\ header_args \in IF app = "cli" THEN HeaderArgs ELSE {NoHeaders}
    /\ exit_code = NoExit
    /\ file_mapping = NoMapping
    /\ test_numero_carta = <<>>
    /\ pc = IF app = "cli" THEN "main" ELSE "start"
    /\ records = <<>>
    /\ grouped_records = <<>>
    /\ idx = 0
    /\ results = NewResults(0, 0)
    /\ files_not_found = <<>>
    /\ posts = <<>>
    /\ response = NoResponse
    /\ result = NoResult
    /\ message_queue = <<>>
    /\ built = NoBuilt
    /\ is_processing = (app = "gui")
    /\ upload_button = IF app = "gui" THEN "disabled" ELSE "normal"
    /\ workers = IF app = "gui" THEN 1 ELSE 0
    /\ consumed = <<>>
    /\ summary_labels = ZeroLabels

\* ':' not in header
Malformed(header) == \A i \in DOMAIN header : header[i] # ":"

\* main up to the call of process_csv: a --header value without a colon
\* ends the process with sys.exit(1)
main ==
    /\ app = "cli"
    /\ pc = "main"
    /\ IF \E i \in DOMAIN header_args : Malformed(header_args[i])
       THEN /\ pc' = "exited"
            /\ exit_code' = 1
       ELSE /\ pc' = "start"
            /\ UNCHANGED exit_code
    /\ UNCHANGED <<Inputs, records, grouped_records, idx, results,
                   files_not_found, posts, response, result, message_queue,
                   built, workers, Interface, file_mapping>>

\* a variant of read_csv that returns no records where it cannot read
read_csv_Empty(f) == [exited |-> FALSE, records |-> <<>>]

\* read_csv: the records of the file, or sys.exit(1) where the file is
\* missing or cannot be parsed
read_csv(f) ==
    IF f.readable
    THEN [exited |-> FALSE, records |-> f.rows]
    ELSE [exited |-> TRUE, records |-> <<>>]

\* read_csv and group_by_license, then results = {...}
process_csv_read ==
    /\ app = "cli"
    /\ pc = "start"
    /\ LET read == read_csv(csv_file)
       IN  IF ~read.exited
           THEN /\ records' = read.records
                /\ grouped_records' = group_by_license(read.records)
                /\ results' = NewResults(Len(read.records),
                                         Len(group_by_license(read.records)))
                /\ pc' = "loop"
                /\ UNCHANGED exit_code
           ELSE /\ pc' = "exited"
                /\ exit_code' = 1
                /\ UNCHANGED <<records, grouped_records, results>>
    /\ UNCHANGED <<Inputs, idx, files_not_found, posts, response, result,
                   message_queue, built, workers, Interface, file_mapping>>

\* one iteration of the loop of process_csv; an exception that leaves it is
\* not caught in main, and the interpreter ends with status 1
process_csv_group ==
    /\ app = "cli"
    /\ pc = "loop"
    /\ idx < Len(grouped_records)
    /\ idx' = idx + 1
    /\ LET i == idx + 1
           numero_carta == grouped_records[i].numero_carta
           rows == grouped_records[i].rows
           b == build_payload_from_rows(files, files_not_found, rows)
       IN  IF numero_carta = <<>>
           THEN /\ results' = ProcessCsvNoNumber(results, i)
                /\ UNCHANGED <<pc, files_not_found, posts, response, result,
                               built>>
           ELSE
           /\ files_not_found' = b.fnf
           /\ built' = Built(b)
           /\ IF DOMAIN b.payload = {}
              THEN /\ results' = ProcessCsvNoPayload(results, i, numero_carta, rows)
                   /\ UNCHANGED <<pc, posts, response, result>>
              ELSE \E resp \in Responses :
                   LET sent == send_to_api(numero_carta, b.payload, resp)
                       after == ProcessCsvResult(results, i, numero_carta, rows,
                                                 sent.value)
                   IN  /\ posts' = Append(posts, [numero_carta |-> numero_carta,
                                                  payload |-> b.payload])
                       /\ response' = resp
                       /\ result' = sent
                       /\ IF sent.raised
                          THEN /\ pc' = "crashed"
                               /\ UNCHANGED results
                          ELSE /\ results' = after.results
                               /\ pc' = IF after.raised THEN "crashed" ELSE "loop"
    /\ exit_code' = IF pc' = "crashed" THEN 1 ELSE exit_code
    /\ UNCHANGED <<Inputs, records, grouped_records, message_queue, workers,
                   Interface, file_mapping>>

\* the exit status main chooses from the results
ExitStatus(res) == IF res.failed > 0 THEN 1 ELSE 0

\* the summary is printed and results returned; main exits with the status
process_csv_return ==
    /\ app = "cli"
    /\ pc = "loop"
    /\ idx = Len(grouped_records)
    /\ pc' = "done"
    /\ exit_code' = ExitStatus(results)
    /\ UNCHANGED <<Inputs, records, grouped_records, idx, results,
                   files_not_found, posts, response, result, message_queue,
                   built, workers, Interface, file_mapping>>

\* upload_worker up to the creation of results; sys.exit in read_csv raises
\* SystemExit, which ends the thread
upload_worker_start ==
    /\ app = "gui"
    /\ pc = "start"
    /\ IF input_mode = "csv"
       THEN IF ~read_csv(csv_file).exited
            THEN LET recs == read_csv(csv_file).records
                     grouped == group_by_license(recs)
                 IN  /\ records' = recs
                     /\ grouped_records' = grouped
                     /\ results' = NewResults(Len(recs), Len(grouped))
                     /\ message_queue' = message_queue \o
                            << Status([fmt |-> "Reading CSV file"], "info"),
                               Status([fmt |-> "Found", rows |-> Len(recs),
                                       drivers |-> Len(grouped)], "success"),
                               Status([fmt |-> "="], "header") >>
                     /\ pc' = "loop"
                     /\ UNCHANGED workers
            ELSE /\ message_queue' = Append(message_queue,
                            Status([fmt |-> "Reading CSV file"], "info"))
                 /\ pc' = "exited"
                 /\ workers' = workers - 1
                 /\ UNCHANGED <<records, grouped_records, results>>
       ELSE LET grouped == ManualGroups(<<>>, manual_numbers_list, 1)
            IN  /\ records' = <<>>
                /\ grouped_records' = grouped
                /\ results' = NewResults(0, Len(grouped))
                /\ message_queue' = message_queue \o
                       << Status([fmt |-> "Processing",
                                  numbers |-> Len(manual_numbers_list)], "info"),
                          Status([fmt |-> "Ready", drivers |-> Len(grouped)],
                                 "success"),
                          Status([fmt |-> "="], "header") >>
                /\ pc' = "loop"
                /\ UNCHANGED workers
    /\ UNCHANGED <<Inputs, idx, files_not_found, posts, response, result,
                   built, Interface, exit_code, file_mapping>>

Progress(i, n) == [type |-> "progress", value |-> [num |-> i * 100, den |-> n]]

\* The 'summary' message carries the results dict itself, not a copy.
\* at_put is what an update_summary of the dict would have shown when the
\* message was put; the program does not read it.
Summary(res) ==
    [type |-> "summary", results |-> "results", at_put |-> update_summary(res)]

\* one iteration of the loop of upload_worker
upload_worker_group ==
    /\ app = "gui"
    /\ pc = "loop"
    /\ idx < Len(grouped_records)
    /\ idx' = idx + 1
    /\ LET i == idx + 1
           n == Len(grouped_records)
           numero_carta == grouped_records[i].numero_carta
           rows == grouped_records[i].rows
           b == IF input_mode = "manual"
                THEN build_payload_from_license_number(
                        biometric_dir, files_not_found, numero_carta)
                ELSE build_payload_from_rows(files, files_not_found, rows)
           queue1 == Append(message_queue, Progress(i, n))
       IN  IF numero_carta = <<>>
           THEN /\ results' = Incr(results, "skipped")
                /\ message_queue' = Append(queue1,
                        Status([fmt |-> "SKIPPED: Missing license number",
                                idx |-> i, of |-> n], "error"))
                /\ UNCHANGED <<pc, files_not_found, posts, response, result,
                               built, workers>>
           ELSE
           /\ files_not_found' = b.fnf
           /\ built' = Built(b)
           /\ IF DOMAIN b.payload = {}
              THEN /\ results' = Incr(results, "skipped")
                   /\ message_queue' = Append(queue1,
                        Status([fmt |-> "SKIPPED: No biometric data found",
                                idx |-> i, of |-> n,
                                numero_carta |-> numero_carta], "warning"))
                   /\ UNCHANGED <<pc, posts, response, result, workers>>
              ELSE \E resp \in Responses :
                   LET sent == send_to_api(numero_carta, b.payload, resp)
                       after == UploadWorkerResult(results, i, n, numero_carta,
                                                   sent.value)
                   IN  /\ posts' = Append(posts, [numero_carta |-> numero_carta,
                                                  payload |-> b.payload])
                       /\ response' = resp
                       /\ result' = sent
                       /\ IF sent.raised
                          THEN /\ pc' = "aborted"
                               /\ workers' = workers - 1
                               /\ message_queue' =
                                    queue1 \o UploadWorkerExcept(sent.exc)
                               /\ UNCHANGED results
                          ELSE IF after.raised
                          THEN /\ pc' = "aborted"
                               /\ workers' = workers - 1
                               /\ results' = after.results
                               /\ message_queue' =
                                    queue1 \o UploadWorkerExcept(after.exc)
                          ELSE /\ pc' = "loop"
                               /\ results' = after.results
                               /\ message_queue' =
                                    queue1 \o after.msgs
                                    \o <<Summary(after.results)>>
                               /\ UNCHANGED workers
    /\ UNCHANGED <<Inputs, records, grouped_records, Interface, exit_code,
                   file_mapping>>

\* the final messages of upload_worker; the thread ends
upload_worker_complete ==
    /\ app = "gui"
    /\ pc = "loop"
    /\ idx = Len(grouped_records)
    /\ pc' = "done"
    /\ workers' = workers - 1
    /\ message_queue' = message_queue \o
            << Status([fmt |-> "="], "header"),
               Status([fmt |-> "UPLOAD COMPLETE"], "header"),
               Status([fmt |-> "="], "header") >>
            \o (IF files_not_found # <<>>
                THEN <<Status([fmt |-> "Warning: file(s) not found",
                               count |-> Len(files_not_found)], "warning")>>
                ELSE <<>>)
            \o << Progress(1, 1), [type |-> "complete", results |-> "results"] >>
    /\ UNCHANGED <<Inputs, records, grouped_records, idx, results,
                   files_not_found, posts, response, result, built, Interface,
                   exit_code, file_mapping>>

Next ==
    \/ main
    \/ process_csv_read
    \/ process_csv_group
    \/ process_csv_return
    \/ upload_worker_start
    \/ upload_worker_group
    \/ upload_worker_complete

Spec == Init /\ [][Next]_vars

-----------------------------------------------------------------------------
(* build_payload_from_rows called on its own, on the rows of one group and *)
(* a fresh processor                                                       *)

\* header Numero_Carta,Tipo_Biometria,Caminho_Completo,Is_Active
TypedGroupRows ==
    { [Numero_Carta |-> <<"B">>, Tipo_Biometria |-> t,
       Caminho_Completo |-> c, Is_Active |-> a] :
        t \in {<<"1">>, <<"2">>}, c \in {<<"p">>}, a \in {<<"1">>} }
    \cup
    { [Numero_Carta |-> <<"B">>, Tipo_Biometria |-> <<"2">>,
       Caminho_Completo |-> <<" ", "q">>, Is_Active |-> <<"1">>],
      [Numero_Carta |-> <<"B">>, Tipo_Biometria |-> <<"2">>,
       Caminho_Completo |-> <<"q">>, Is_Active |-> <<"0">>],
      [Numero_Carta |-> <<"B">>, Tipo_Biometria |-> <<"9">>,
       Caminho_Completo |-> <<"p">>, Is_Active |-> <<"1">>],
      [Numero_Carta |-> <<"B">>, Tipo_Biometria |-> <<"1">>,
       Caminho_Completo |-> <<>>, Is_Active |-> <<"1">>] }

\* header Numero_Carta,Tipo_Biometria,Caminho_Completo: no Is_Active column
NoFlagGroupRows ==
    { [Numero_Carta |-> <<"B">>, Tipo_Biometria |-> <<"3">>,
       Caminho_Completo |-> <<"p">>],
      [Numero_Carta |-> <<"B">>, Tipo_Biometria |-> <<"4">>,
       Caminho_Completo |-> <<"q">>] }

\* header Numero_Carta,Tipo_Biometria,Caminho_Completo,Is_Active,fileSign
BothGroupRows ==
    { [Numero_Carta |-> <<"B">>, Tipo_Biometria |-> <<"1">>,
       Caminho_Completo |-> <<"p">>, Is_Active |-> <<"1">>, fileSign |-> <<>>],
      [Numero_Carta |-> <<"B">>, Tipo_Biometria |-> <<"2">>,
       Caminho_Completo |-> <<"q">>, Is_Active |-> <<"0">>,
       fileSign |-> <<"y">>] }

\* header Numero_Carta,fileFace,face,sign
DirectGroupRows ==
    { [Numero_Carta |-> <<"A">>, fileFace |-> <<"x">>, face |-> <<"z">>,
       sign |-> <<>>],
      [Numero_Carta |-> <<"A">>, fileFace |-> <<" ">>, face |-> <<"z">>,
       sign |-> <<" ", "s", " ">>],
      [Numero_Carta |-> <<"A">>, fileFace |-> <<>>, face |-> <<" ">>,
       sign |-> <<>>] }

GroupRowSets == {TypedGroupRows, NoFlagGroupRows, BothGroupRows, DirectGroupRows}

\* what a path can name: nothing, a file with bytes, an empty file, or
\* something open() refuses (no permission, a directory)
Absent == [kind |-> "absent"]

PathStates ==
    { Absent, [kind |-> "data", bytes |-> <<255, 216>>],
      [kind |-> "data", bytes |-> <<>>], [kind |-> "denied"] }

DiskFileSystems ==
    { [path \in {x \in DOMAIN f : f[x] # Absent} |-> f[path]] :
        f \in [{<<"p">>, <<"q">>} -> PathStates] }

InitPayload ==
    /\ app = "cli"
    /\ input_mode = "csv"
    /\ csv_file = NoCsv
    /\ records \in UNION {BoundedSeq(R, MaxRows) : R \in GroupRowSets}
    /\ files \in IF ReferencesFiles(records) THEN DiskFileSystems ELSE {NoFiles}
    /\ biometric_dir = NoDir
    /\ manual_numbers_list = <<>>
    /\ api_url = "u"
    /\ header_args = NoHeaders
    /\ exit_code = NoExit
    /\ file_mapping = NoMapping
    /\ test_numero_carta = <<>>
    /\ pc = "call"
    /\ grouped_records = <<>>
    /\ idx = 0
    /\ results = NewResults(0, 0)
    /\ files_not_found = <<>>
    /\ posts = <<>>
    /\ response = NoResponse
    /\ result = NoResult
    /\ message_queue = <<>>
    /\ built = NoBuilt
    /\ is_processing = FALSE
    /\ upload_button = "normal"
    /\ workers = 0
    /\ consumed = <<>>
    /\ summary_labels = ZeroLabels

\* payload = self.build_payload_from_rows(rows), called on the same
\* processor a first and a second time
call_build_payload_from_rows ==
    /\ pc \in {"call", "returned"}
    /\ LET b == build_payload_from_rows(files, files_not_found, records)
       IN  /\ built' = Built(b)
           /\ files_not_found' = b.fnf
    /\ pc' = IF pc = "call" THEN "returned" ELSE "returned_twice"
    /\ UNCHANGED <<Inputs, records, grouped_records, idx, results, posts,
                   response, result, message_queue, workers, Interface,
                   exit_code, file_mapping>>

NextPayload == call_build_payload_from_rows

SpecPayload == InitPayload /\ [][NextPayload]_vars

-----------------------------------------------------------------------------
(* The interface thread of the GUI next to the worker thread               *)

\* a variant that takes the newest message
get_nowait_Last(q) == [msg |-> q[Len(q)], rest |-> SubSeq(q, 1, Len(q) - 1)]

\* message_queue.get_nowait()
get_nowait(q) == [msg |-> Head(q), rest |-> Tail(q)]

\* a variant that enables the button after every message
ButtonAfter_AnyMessage(msg, button) == "normal"

\* the state of upload_button after check_queue handled msg
ButtonAfter(msg, button) ==
    IF msg.type = "complete" THEN "normal" ELSE button

\* A click on upload_button: a ttk.Button in state 'disabled' does not run
\* its command.  Each validation that fails shows a message box and
\* returns with nothing changed; askyesno is the answer of the user when
\* the biometric directory does not exist.
start_upload ==
    /\ app = "gui"
    /\ upload_button = "normal"
    /\ IF input_mode = "csv" THEN csv_file.exists ELSE manual_numbers_list # <<>>
    /\ api_url # ""
    /\ \E askyesno \in BOOLEAN : biometric_dir.exists \/ askyesno
    /\ summary_labels' = ZeroLabels
    /\ upload_button' = "disabled"
    /\ is_processing' = TRUE
    /\ workers' = workers + 1
    /\ pc' = "start"
    /\ records' = <<>>
    /\ grouped_records' = <<>>
    /\ idx' = 0
    /\ results' = NewResults(0, 0)
    /\ files_not_found' = <<>>
    /\ posts' = <<>>
    /\ response' = NoResponse
    /\ result' = NoResult
    /\ built' = NoBuilt
    /\ consumed' = <<>>
    /\ UNCHANGED <<Inputs, message_queue, exit_code, file_mapping>>

\* one turn of the loop of check_queue: a message is taken and handled
check_queue ==
    /\ app = "gui"
    /\ message_queue # <<>>
    /\ LET got == get_nowait(message_queue)
       IN  /\ message_queue' = got.rest
           /\ consumed' = Append(consumed, got.msg)
           /\ summary_labels' = IF got.msg.type = "summary"
                                THEN update_summary(results)
                                ELSE summary_labels
           /\ upload_button' = ButtonAfter(got.msg, upload_button)
           /\ is_processing' = IF got.msg.type = "complete"
                               THEN FALSE ELSE is_processing
    /\ UNCHANGED <<Inputs, pc, records, grouped_records, idx, results,
                   files_not_found, posts, response, result, built, workers,
                   exit_code, file_mapping>>

\* the files chosen in the GUI
GuiCsvFiles ==
    { NoCsv, BadCsv,
      [exists |-> TRUE, readable |-> TRUE,
       rows |-> << [Numero_Carta |-> <<"A">>, fileFace |-> <<"x">>] >>],
      [exists |-> TRUE, readable |-> TRUE,
       rows |-> << [Numero_Carta |-> <<"A">>, fileFace |-> <<"x">>],
                   [Numero_Carta |-> <<"B">>, fileFace |-> <<" ">>] >>],
      [exists |-> TRUE, readable |-> TRUE,
       rows |-> << [Numero_Carta |-> <<"B">>, fileFace |-> <<" ">>] >>] }

InitGui ==
    /\ app = "gui"
    /\ input_mode \in {"csv", "manual"}
    /\ csv_file \in IF input_mode = "csv" THEN GuiCsvFiles ELSE {NoCsv}
    /\ files = NoFiles
    /\ biometric_dir \in IF input_mode = "manual" THEN BiometricDirs ELSE {NoDir}
    /\ manual_numbers_list \in
            IF input_mode = "manual" THEN ManualLists \cup {<<>>} ELSE {<<>>}
    /\ api_url \in {"", "u"}
    /\ header_args = NoHeaders
    /\ exit_code = NoExit
    /\ file_mapping = NoMapping
    /\ test_numero_carta = <<>>
    /\ pc = "idle"
    /\ records = <<>>
    /\ grouped_records = <<>>
    /\ idx = 0
    /\ results = NewResults(0, 0)
    /\ files_not_found = <<>>
    /\ posts = <<>>
    /\ response = NoResponse
    /\ result = NoResult
    /\ message_queue = <<>>
    /\ built = NoBuilt
    /\ is_processing = FALSE
    /\ upload_button = "normal"
    /\ workers = 0
    /\ consumed = <<>>
    /\ summary_labels = ZeroLabels

NextGui ==
    \/ start_upload
    \/ check_queue
    \/ upload_worker_start
    \/ upload_worker_group
    \/ upload_worker_complete

SpecGui == InitGui /\ [][NextGui]_vars

-----------------------------------------------------------------------------
(* The manual list of the GUI: add_manual_numbers, remove_selected_numbers *)
(* and clear_manual_numbers, and the grouping of a manual run              *)

MaxLines == 3

\* placeholder = "Example:\n10082220\n10116145\n10054321"
Placeholder ==
    << "E", "x", "a", "m", "p", "l", "e", ":", "\n", "1", "0", "0", "8",
       "2", "2", "2", "0", "\n", "1", "0", "1", "1", "6", "1", "4", "5",
       "\n", "1", "0", "0", "5", "4", "3", "2", "1" >>

\* str.split('\n')
RECURSIVE Split(_)
Split(s) ==
    LET breaks == {k \in DOMAIN s : s[k] = "\n"}
    IN  IF breaks = {} THEN <<s>>
        ELSE LET k == CHOOSE b \in breaks : \A c \in breaks : b <= c
             IN  <<SubSeq(s, 1, k - 1)>> \o Split(SubSeq(s, k + 1, Len(s)))

\* what the user typed, line by line
RawLines == { <<"A">>, <<" ", "A", " ">>, <<"B">>, <<"C">>, <<>>, <<" ">> }

RECURSIVE JoinLines(_)
JoinLines(lines) ==
    IF lines = <<>> THEN <<>>
    ELSE IF Len(lines) = 1 THEN lines[1]
    ELSE lines[1] \o <<"\n">> \o JoinLines(Tail(lines))

\* manual_input_text.get("1.0", tk.END): the content of the widget and the
\* newline Tk puts after it
ManualInputTexts ==
    { JoinLines(lines) \o <<"\n">> : lines \in BoundedSeq(RawLines, MaxLines) }
    \cup { Placeholder \o <<"\n">> }

\* a variant of the loop body without the check for duplicates
AddNumber_NoDuplicateCheck(list, line) ==
    IF strip(line) = <<>> THEN list ELSE Append(list, strip(line))

\* the body of "for line in lines"
AddNumber(list, line) ==
    LET numero == strip(line)
    IN  IF numero = <<>> THEN list
        ELSE IF \E k \in DOMAIN list : list[k] = numero THEN list
        ELSE Append(list, numero)

RECURSIVE AddNumbers(_, _, _)
AddNumbers(list, lines, i) ==
    IF i > Len(lines) THEN list
    ELSE AddNumbers(AddNumber(list, lines[i]), lines, i + 1)

\* the button "Add to Queue": the placeholder is refused with a warning
add_manual_numbers ==
    /\ app = "gui"
    /\ \E text \in ManualInputTexts :
            manual_numbers_list' =
                IF strip(text) = Placeholder
                THEN manual_numbers_list
                ELSE AddNumbers(manual_numbers_list, Split(strip(text)), 1)
    /\ UNCHANGED <<app, input_mode, csv_file, files, biometric_dir, api_url,
                   header_args, test_numero_carta, pc, records, grouped_records, idx, results,
                   files_not_found, posts, response, result, message_queue,
                   built, workers, Interface, exit_code, file_mapping>>

\* del self.manual_numbers_list[index]
DeleteAt(list, index) ==
    SubSeq(list, 1, index - 1) \o SubSeq(list, index + 1, Len(list))

\* for index in reversed(selected_indices)
RECURSIVE DeleteReversed(_, _)
DeleteReversed(list, selected_indices) ==
    IF selected_indices = {} THEN list
    ELSE LET index == CHOOSE k \in selected_indices :
                            \A h \in selected_indices : k >= h
         IN  DeleteReversed(DeleteAt(list, index), selected_indices \ {index})

\* the button "Remove Selected": curselection() gives the selected rows of
\* the listbox, which shows the list; no selection is refused with a warning
remove_selected_numbers ==
    /\ app = "gui"
    /\ \E selected_indices \in SUBSET DOMAIN manual_numbers_list :
            manual_numbers_list' =
                DeleteReversed(manual_numbers_list, selected_indices)
    /\ UNCHANGED <<app, input_mode, csv_file, files, biometric_dir, api_url,
                   header_args, test_numero_carta, pc, records, grouped_records, idx, results,
                   files_not_found, posts, response, result, message_queue,
                   built, workers, Interface, exit_code, file_mapping>>

\* the button "Clear All"; askyesno is the answer of the user
clear_manual_numbers ==
    /\ app = "gui"
    /\ manual_numbers_list # <<>>
    /\ \E askyesno \in BOOLEAN :
            manual_numbers_list' =
                IF askyesno THEN <<>> ELSE manual_numbers_list
    /\ UNCHANGED <<app, input_mode, csv_file, files, biometric_dir, api_url,
                   header_args, test_numero_carta, pc, records, grouped_records, idx, results,
                   files_not_found, posts, response, result, message_queue,
                   built, workers, Interface, exit_code, file_mapping>>

InitManual ==
    /\ app = "gui"
    /\ input_mode = "manual"
    /\ csv_file = NoCsv
    /\ files = NoFiles
    /\ biometric_dir \in BiometricDirs
    /\ manual_numbers_list \in ManualLists \cup {<<>>}
    /\ api_url = "u"
    /\ header_args = NoHeaders
    /\ exit_code = NoExit
    /\ file_mapping = NoMapping
    /\ test_numero_carta = <<>>
    /\ pc = "idle"
    /\ records = <<>>
    /\ grouped_records = <<>>
    /\ idx = 0
    /\ results = NewResults(0, 0)
    /\ files_not_found = <<>>
    /\ posts = <<>>
    /\ response = NoResponse
    /\ result = NoResult
    /\ message_queue = <<>>
    /\ built = NoBuilt
    /\ is_processing = FALSE
    /\ upload_button = "normal"
    /\ workers = 0
    /\ consumed = <<>>
    /\ summary_labels = ZeroLabels

NextManual ==
    \/ add_manual_numbers
    \/ remove_selected_numbers
    \/ clear_manual_numbers
    \/ start_upload
    \/ upload_worker_start

SpecManual == InitManual /\ [][NextManual]_vars

-----------------------------------------------------------------------------
(* The resolver called on its own, as test_file_finding.py does: first     *)
(* find_biometric_files, then build_payload_from_license_number            *)

MaxFiles == 2

\* files as create_sample_files.py names them: FOTO_<n>_<t>.jpg and so on
SampleFiles ==
    { [marker |-> m, name |-> <<"_", n, "_">>, bytes |-> <<255>>] :
        m \in {"FOTO", "ASSINATURA"}, n \in {"A", "B"} }
    \cup
    { [marker |-> "IMPRESSAO_DIGITAL_1", name |-> <<"_", "A", "_">>,
       bytes |-> <<>>],
      [marker |-> "IMPRESSAO_DIGITAL_2", name |-> <<"_", "A", "B", "_">>,
       bytes |-> <<216>>] }

ResolverDirs ==
    {NoDir} \cup { [exists |-> TRUE, listing |-> l] :
                        l \in BoundedSeq(SampleFiles, MaxFiles) }

InitResolver ==
    /\ app = "cli"
    /\ input_mode = "manual"
    /\ csv_file = NoCsv
    /\ files = NoFiles
    /\ biometric_dir \in ResolverDirs
    /\ manual_numbers_list = <<>>
    /\ api_url = "u"
    /\ header_args = NoHeaders
    /\ exit_code = NoExit
    /\ file_mapping = NoMapping
    /\ test_numero_carta \in {<<"A">>, <<"B">>}
    /\ pc = "call"
    /\ records = <<>>
    /\ grouped_records = <<>>
    /\ idx = 0
    /\ results = NewResults(0, 0)
    /\ files_not_found = <<>>
    /\ posts = <<>>
    /\ response = NoResponse
    /\ result = NoResult
    /\ message_queue = <<>>
    /\ built = NoBuilt
    /\ is_processing = FALSE
    /\ upload_button = "normal"
    /\ workers = 0
    /\ consumed = <<>>
    /\ summary_labels = ZeroLabels

\* file_mapping = processor.find_biometric_files(numero_carta): the keys of
\* the mapping
call_find_biometric_files ==
    /\ pc = "call"
    /\ file_mapping' =
            { MARKERS[f].api_field :
                f \in find_biometric_files(biometric_dir, test_numero_carta) }
    /\ pc' = "resolved"
    /\ UNCHANGED <<Inputs, records, grouped_records, idx, results,
                   files_not_found, posts, response, result, message_queue,
                   built, workers, Interface, exit_code>>

\* payload = processor.build_payload_from_license_number(numero_carta)
call_build_payload_from_license_number ==
    /\ pc = "resolved"
    /\ LET b == build_payload_from_license_number(
                    biometric_dir, files_not_found, test_numero_carta)
       IN  /\ built' = Built(b)
           /\ files_not_found' = b.fnf
    /\ pc' = "returned"
    /\ UNCHANGED <<Inputs, records, grouped_records, idx, results, posts,
                   response, result, message_queue, workers, Interface,
                   exit_code, file_mapping>>

NextResolver ==
    \/ call_find_biometric_files
    \/ call_build_payload_from_license_number

SpecResolver == InitResolver /\ [][NextResolver]_vars

-----------------------------------------------------------------------------
(* Properties *)

\* a POST was issued in the last step and came back with an HTTP response
GotResponse == response.kind = "response"

\* the run is over, one way or another, after grouping succeeded
RunEnded == pc \in {"done", "crashed", "aborted"}

\* the loop is running or has run to its end
InLoop == pc \in {"loop", "done"}

Counted == results.success + results.failed + results.skipped

\* the identifier of a CSV row as group_by_license sees it
Identifier(row) == strip(Get(row, "Numero_Carta", <<>>))

\* the payload built for the i-th group
PayloadOfGroup(i) ==
    IF input_mode = "manual"
    THEN build_payload_from_license_number(
            biometric_dir, <<>>, grouped_records[i].numero_carta).payload
    ELSE build_payload_from_rows(files, <<>>, grouped_records[i].rows).payload

\* C1: every response with status code 404 makes send_to_api return an
\* Outcome with status 'config_error', whatever the body is.
C1_NotFoundIsConfigError ==
    (GotResponse /\ response.status_code = 404)
        => (~result.raised /\ result.value.status = "config_error")

\* C2: for every result of the POST, send_to_api returns an Outcome and the
\* loop records it; no exception leaves send_to_api or the handling of the
\* group that follows it.
C2_NoExceptionEscapes ==
    /\ ~result.raised
    /\ pc \notin {"crashed", "aborted"}

KindOfStatusCode(s) ==
    CASE s = 201 -> "success"
      [] s = 400 -> "skipped"
      [] s = 404 -> "config_error"
      [] s = 500 -> "server_error"
      [] OTHER -> "error"

\* C3: the Outcome kind send_to_api returns for a received response is
\* determined by the status code alone: 201 success, 400 skipped,
\* 404 config_error, 500 server_error, any other code error.
C3_KindByStatusCode ==
    GotResponse
        => /\ ~result.raised
           /\ result.value.status = KindOfStatusCode(response.status_code)

\* C4: in the CLI loop and in the GUI loop, a group whose payload has no
\* keys is counted as skipped, never as success or failed, and no POST is
\* issued for it.
C4_EmptyPayloadSkipped ==
    [][ (idx' = idx + 1 /\ DOMAIN PayloadOfGroup(idx + 1) = {})
        => /\ posts' = posts
           /\ results'.skipped = results.skipped + 1
           /\ results'.success = results.success
           /\ results'.failed = results.failed ]_vars

C4_Witness ==
    /\ app = "gui"
    /\ idx >= 1
    /\ DOMAIN PayloadOfGroup(idx) = {}
    /\ results.skipped = 1
    /\ posts = <<>>

\* C5: once grouping has succeeded, a failure while handling one group
\* never stops the run: the run ends only after every group has been
\* processed, with an outcome recorded for each.
C5_FailureNeverStopsRun ==
    RunEnded => (pc = "done" /\ idx = Len(grouped_records)
                 /\ Counted = Len(grouped_records))

\* C6: each group increments exactly one of success, failed, skipped by
\* one: after k groups the three sum to k, and when the run finishes they
\* sum to total_drivers.
C6_CountersSumToGroups ==
    /\ pc # "start" => Counted = idx
    /\ RunEnded => Counted = results.total_drivers

Bump(kind, kinds) == IF kind \in kinds THEN 1 ELSE 0

\* C7: the counter incremented for a group matches its Outcome kind:
\* success increments success, skipped (HTTP 400 or empty payload)
\* increments skipped, config_error, server_error and error increment
\* failed, and no other counter changes.
C7_CounterMatchesOutcome ==
    [][ (idx' = idx + 1 /\ (posts' = posts \/ ~result'.raised))
        => LET kind == IF posts' = posts THEN "skipped"
                       ELSE result'.value.status
           IN  /\ results'.success =
                    results.success + Bump(kind, {"success"})
               /\ results'.skipped =
                    results.skipped + Bump(kind, {"skipped"})
               /\ results'.failed =
                    results.failed
                    + Bump(kind, {"config_error", "server_error", "error"}) ]_vars

C7_Witness ==
    /\ app = "cli"
    /\ idx = 2
    /\ ~result.raised
    /\ result.value.status = "server_error"
    /\ results.failed = 1
    /\ results.skipped = 1

GroupKeys == {grouped_records[i].numero_carta : i \in DOMAIN grouped_records}

\* the rows of the input with a given trimmed identifier
RowsOf(key) == {j \in DOMAIN records : Identifier(records[j]) = key}

FirstRow(key) ==
    LET rows == RowsOf(key)
    IN  CHOOSE j \in rows : \A h \in rows : j <= h

\* the rows of the input with a given trimmed identifier, in input order
RECURSIVE RowsInOrder(_, _)
RowsInOrder(key, j) ==
    IF j > Len(records) THEN <<>>
    ELSE (IF Identifier(records[j]) = key THEN <<records[j]>> ELSE <<>>)
         \o RowsInOrder(key, j + 1)

\* C10: groups are processed (POST issued, outcome recorded) in the order
\* in which their identifiers first appear in the input rows; a later
\* duplicate never moves its group, and the rows of a group keep their
\* input order.
C10_FirstAppearanceOrder ==
    (input_mode = "csv" /\ pc \notin {"start", "exited"})
        => /\ \A i, k \in DOMAIN grouped_records :
                i < k => FirstRow(grouped_records[i].numero_carta)
                            < FirstRow(grouped_records[k].numero_carta)
           /\ \A i \in DOMAIN grouped_records :
                grouped_records[i].rows
                    = RowsInOrder(grouped_records[i].numero_carta, 1)
           /\ \A p, q \in DOMAIN posts :
                p < q => FirstRow(posts[p].numero_carta)
                            < FirstRow(posts[q].numero_carta)
           /\ app = "cli" =>
                \A p, q \in DOMAIN results.details :
                    p < q => FirstRow(results.details[p].numero_carta)
                                < FirstRow(results.details[q].numero_carta)

C10_Witness ==
    /\ input_mode = "csv"
    /\ Len(records) = 3
    /\ Identifier(records[1]) = <<"A">>
    /\ Identifier(records[2]) = <<"B">>
    /\ Identifier(records[3]) = <<"A">>
    /\ Len(posts) = 2
    /\ posts[1].numero_carta = <<"A">>
    /\ posts[2].numero_carta = <<"B">>

\* the rows of the input that the grouping leaves out
ExcludedRows == {j \in DOMAIN records : Identifier(records[j]) = <<>>}

\* the numbers the run keeps
RunCounts ==
    { results.total_csv_rows, results.total_drivers, results.success,
      results.failed, results.skipped, Len(results.details),
      Len(files_not_found) }

\* C11: rows whose identifier is missing, empty or blank are in no group,
\* no POST is issued with an empty identifier, and the run keeps a count of
\* the rows left out: one of its numbers is the number of these rows.
C11_ExcludedRowsCounted ==
    (input_mode = "csv" /\ pc \notin {"start", "exited"})
        => /\ \A i \in DOMAIN grouped_records :
                /\ grouped_records[i].numero_carta # <<>>
                /\ \A k \in DOMAIN grouped_records[i].rows :
                     \E j \in DOMAIN records \ ExcludedRows :
                        records[j] = grouped_records[i].rows[k]
           /\ \A p \in DOMAIN posts : strip(posts[p].numero_carta) # <<>>
           /\ Cardinality(ExcludedRows) \in RunCounts

\* possible_fields of get_license_number: the accepted names of the
\* identifier column
possible_fields ==
    <<"Numero_Carta", "numero_carta", "license_number", "license", "carta", "id">>

\* the name under which a row carries its identifier, "" when under none
IdentifierColumn(row) ==
    LET named == {i \in DOMAIN possible_fields : possible_fields[i] \in DOMAIN row}
    IN  IF named = {} THEN ""
        ELSE possible_fields[CHOOSE i \in named : \A h \in named : i <= h]

\* the same row with its identifier column named Numero_Carta
AsNumeroCarta(row) ==
    LET c == IdentifierColumn(row)
    IN  IF c \in {"", "Numero_Carta"} THEN row
        ELSE [k \in (DOMAIN row \ {c}) \cup {"Numero_Carta"} |->
                IF k = "Numero_Carta" THEN row[c] ELSE row[k]]

\* the identifiers of the groups in order, each with its number of rows
Shape(grouped) ==
    [i \in DOMAIN grouped |-> <<grouped[i].numero_carta, Len(grouped[i].rows)>>]

\* C12: a CSV whose identifier column is named by an accepted alias is
\* grouped into the same groups as the same rows with the column named
\* Numero_Carta.
C12_AliasesGroupedAlike ==
    (input_mode = "csv" /\ pc \notin {"start", "exited"})
        => Shape(grouped_records)
            = Shape(group_by_license([j \in DOMAIN records |->
                                        AsNumeroCarta(records[j])]))

\* C13: within one group the payload is built by a single construction
\* mode: build_payload_from_rows never stores some fields from typed rows
\* and other fields from embedded values of rows of the same group.
C13_SingleConstructionMode ==
    pc = "returned" => Cardinality(built.modes) <= 1

C13_Witness ==
    /\ pc = "returned"
    /\ built.modes = {"typed"}
    /\ "fileFace" \in DOMAIN built.payload
    /\ \E i \in DOMAIN records :
            /\ "fileSign" \in DOMAIN records[i]
            /\ records[i].fileSign = <<"y">>

ApiFields == {"fileFace", "fileSign", "filesFinger1", "filesFinger2"}

\* the row is a typed row
Typed(row) == "Tipo_Biometria" \in DOMAIN row /\ "Caminho_Completo" \in DOMAIN row

\* Is_Active is '1' or the column is absent
Active(row) == "Is_Active" \notin DOMAIN row \/ strip(row.Is_Active) = <<"1">>

\* the api field of a type code, "" when the code has none
FieldOfType(code) ==
    CASE code = <<"1">> -> "fileFace"
      [] code = <<"2">> -> "fileSign"
      [] code = <<"3">> -> "filesFinger1"
      [] code = <<"4">> -> "filesFinger2"
      [] OTHER -> ""

\* the path names a file that can be read
Readable(path) == path \in DOMAIN files /\ files[path].kind = "data"

\* C14: for a group of typed rows the payload contains api field f if and
\* only if some row of the group is active, has a type code that maps to f
\* and names a readable file that is not empty.
C14_TypedRowsPayload ==
    (pc = "returned" /\ \A i \in DOMAIN records : Typed(records[i]))
        => \A f \in ApiFields :
            f \in DOMAIN built.payload
            <=> \E i \in DOMAIN records :
                    LET path == strip(records[i].Caminho_Completo)
                    IN  /\ Active(records[i])
                        /\ FieldOfType(strip(records[i].Tipo_Biometria)) = f
                        /\ Readable(path)
                        /\ files[path].bytes # <<>>

C14_Witness ==
    /\ pc = "returned"
    /\ Len(records) = 2
    /\ \A i \in DOMAIN records : Typed(records[i]) /\ Active(records[i])
    /\ strip(records[1].Tipo_Biometria) = <<"1">>
    /\ strip(records[2].Tipo_Biometria) = <<"2">>
    /\ DOMAIN built.payload = {"fileFace", "fileSign"}

\* C15: when a typed row names a file that cannot be read for any reason,
\* the other rows are still processed, the field is left out unless
\* another row supplies it, and the path is recorded in files_not_found.
C15_UnreadableFileRecorded ==
    pc = "returned"
        => \A i \in DOMAIN records :
            LET path == strip(Get(records[i], "Caminho_Completo", <<>>))
            IN  ( /\ Typed(records[i])
                  /\ Active(records[i])
                  /\ FieldOfType(strip(records[i].Tipo_Biometria)) # ""
                  /\ path # <<>>
                  /\ ~Readable(path) )
                => \E k \in DOMAIN files_not_found : files_not_found[k] = path

\* C16: every payload build_payload_from_rows returns has only keys among
\* fileFace, fileSign, filesFinger1, filesFinger2, and every value is a
\* string that is not empty.
C16_PayloadKeysAndValues ==
    pc = "returned"
        => /\ DOMAIN built.payload \subseteq ApiFields
           /\ \A f \in DOMAIN built.payload : built.payload[f] # <<>>

C16_Witness ==
    /\ pc = "returned"
    /\ \E i \in DOMAIN records :
            "fileFace" \in DOMAIN records[i] /\ records[i].fileFace = <<" ">>
    /\ DOMAIN built.payload = {"fileFace", "fileSign"}
    /\ built.payload.fileFace = <<"z">>
    /\ built.payload.fileSign = <<"s">>

\* C17: in one run at most one POST is issued per group: whatever the
\* first attempt gave, the same identifier is never submitted again.
C17_OnePostPerGroup ==
    /\ Len(posts) <= idx
    /\ \A p, q \in DOMAIN posts :
            p # q => posts[p].numero_carta # posts[q].numero_carta

C17_Witness ==
    /\ pc = "done"
    /\ Len(grouped_records) = 2
    /\ Len(posts) = 2
    /\ results.failed = 2
    /\ response.kind = "timeout"

\* C18: at most one upload worker runs at any time, and only while
\* is_processing is true and the upload button is disabled: between a
\* start_upload and the handling of its 'complete' message no second
\* worker is started.
C18_SingleWorker ==
    /\ workers <= 1
    /\ workers = 1 => is_processing
    /\ is_processing => upload_button = "disabled"

C18_Witness ==
    /\ workers = 1
    /\ is_processing
    /\ pc = "loop"
    /\ idx = 1
    /\ Len(consumed) >= 1

IsPrefix(a, b) == Len(a) <= Len(b) /\ SubSeq(b, 1, Len(a)) = a

\* C19: under every interleaving of the worker and the interface, the
\* interface handles the messages of a run in the order the worker put
\* them, each once and none lost: a step either starts a run with an empty
\* queue, or leaves the messages handled so far followed by the messages
\* queued a prefix of what it is afterwards, handling at most the message
\* at the head of the queue.
C19_MessagesInOrder ==
    [][ \/ /\ pc' = "start"
           /\ pc # "start"
           /\ message_queue = <<>>
           /\ message_queue' = <<>>
           /\ consumed' = <<>>
        \/ /\ IsPrefix(consumed, consumed')
           /\ Len(consumed') <= Len(consumed) + 1
           /\ IsPrefix(consumed \o message_queue, consumed' \o message_queue') ]_vars

C19_Witness ==
    /\ pc = "loop"
    /\ idx = 2
    /\ Len(consumed) >= 5
    /\ Len(message_queue) >= 2
    /\ consumed[Len(consumed)].type = "summary"

RunConsumed ==
    /\ pc = "done"
    /\ message_queue = <<>>
    /\ consumed # <<>>
    /\ consumed[Len(consumed)].type = "complete"

C23_UnreadableCsvAborts ==
    (input_mode = "csv" /\ ~csv_file.readable)
        => /\ posts = <<>>
           /\ results = NewResults(0, 0)
           /\ grouped_records = <<>>
           /\ pc \in {"main", "start", "exited"}

C23_Witness ==
    /\ input_mode = "csv"
    /\ ~csv_file.readable
    /\ \A i \in DOMAIN header_args : ~Malformed(header_args[i])
    /\ pc = "exited"

\* the body of the response is a JSON object whose status lists created
\* files
ListsCreatedFiles(resp) ==
    /\ resp.kind = "response"
    /\ resp.text = "json"
    /\ IsDict(resp.json)
    /\ IsDict(JGet(resp.json, "status", JObj(EmptyDict)))
    /\ JGet(JGet(resp.json, "status", JObj(EmptyDict)), "files_created",
            JNull).t = "list"

CreatedFilesOf(resp) == resp.json.m["status"].m["files_created"]

LastDetail(res) == res.details[Len(res.details)]

\* C24: a POST answered with status 201 and a body that lists created
\* files counts the group as success, and the detail entry of the group
\* carries files_created equal to the list of the body, same elements in
\* the same order.
C24_CreatedFilesEchoed ==
    [][ ( /\ Len(posts') = Len(posts) + 1
          /\ ListsCreatedFiles(response')
          /\ response'.status_code = 201 )
        => /\ results'.success = results.success + 1
           /\ results'.failed = results.failed
           /\ results'.skipped = results.skipped
           /\ Len(results'.details) = Len(results.details) + 1
           /\ LastDetail(results').status = "success"
           /\ LastDetail(results').files_created = CreatedFilesOf(response') ]_vars

C24_Witness ==
    /\ pc = "loop"
    /\ idx = 2
    /\ Len(posts) = 2
    /\ ListsCreatedFiles(response)
    /\ response.status_code = 201
    /\ results.success = 2
    /\ Len(CreatedFilesOf(response).l) = 2
    /\ LastDetail(results).files_created = CreatedFilesOf(response)

\* the worker thread of the run has ended
ThreadEnded == app = "gui" /\ workers = 0 /\ pc # "idle"

\* the messages of the run, handled or still queued
RunMessages == consumed \o message_queue

C28_DetailStatusIsOutcomeKind ==
    [][ ( /\ Len(posts') = Len(posts) + 1
          /\ ~result'.raised
          /\ pc' = "loop" )
        => /\ Len(results'.details) = Len(results.details) + 1
           /\ LastDetail(results').status = result'.value.status ]_vars

\* C25: a second call of build_payload_from_rows with the same rows and
\* the same files returns the same payload and leaves the processor, its
\* files_not_found included, as the first call left it.
C25_BuildIsIdempotent ==
    [][ (pc = "returned" /\ pc' = "returned_twice")
        => /\ built' = built
           /\ files_not_found' = files_not_found ]_vars

\* every row of the group carries its data in the columns of FIELD_MAPPING
DirectGroup == records # <<>> /\ \A i \in DOMAIN records : ~Typed(records[i])

Least(S) == CHOOSE k \in S : \A h \in S : k <= h
Greatest(S) == CHOOSE k \in S : \A h \in S : k >= h

\* the aliases of field f, by position, whose column in the row holds a
\* value that is not empty
NonEmptyAliases(row, f) ==
    {k \in DOMAIN FIELD_MAPPING[f].options :
        /\ FIELD_MAPPING[f].options[k] \in DOMAIN row
        /\ row[FIELD_MAPPING[f].options[k]] # <<>>}

\* the same for a value that is not blank: it has a character that is not
\* whitespace
NonBlankAliases(row, f) ==
    {k \in NonEmptyAliases(row, f) :
        \E j \in DOMAIN row[FIELD_MAPPING[f].options[k]] :
            row[FIELD_MAPPING[f].options[k]][j] \notin Whitespace}

\* C29 as stated: in a group of direct-value rows each field of the
\* payload holds the value of the first alias column that is non-empty in
\* a row, copied without modification, and a field with no non-empty
\* alias in any row is absent.
C29_FirstNonEmptyAliasCopied ==
    (pc = "returned" /\ DirectGroup)
        => \A f \in DOMAIN FIELD_MAPPING :
            LET api_field == FIELD_MAPPING[f].api_field
                rows == {i \in DOMAIN records :
                            NonEmptyAliases(records[i], f) # {}}
            IN  IF rows = {}
                THEN api_field \notin DOMAIN built.payload
                ELSE /\ api_field \in DOMAIN built.payload
                     /\ \E i \in rows :
                            built.payload[api_field] =
                                records[i][FIELD_MAPPING[f].options[
                                    Least(NonEmptyAliases(records[i], f))]]

\* C29 amended: each field of the payload holds the value, with the
\* whitespace around it removed, of the first alias column that is not
\* blank in the last row of the group that has such a column; a field
\* with no alias column that is not blank in any row is absent.
C29_FirstNonBlankAliasStripped ==
    (pc = "returned" /\ DirectGroup)
        => \A f \in DOMAIN FIELD_MAPPING :
            LET api_field == FIELD_MAPPING[f].api_field
                rows == {i \in DOMAIN records :
                            NonBlankAliases(records[i], f) # {}}
            IN  IF rows = {}
                THEN api_field \notin DOMAIN built.payload
                ELSE /\ api_field \in DOMAIN built.payload
                     /\ built.payload[api_field] =
                            strip(records[Greatest(rows)][
                                FIELD_MAPPING[f].options[
                                    Least(NonBlankAliases(
                                        records[Greatest(rows)], f))]])

C29_Witness ==
    /\ pc = "returned"
    /\ DirectGroup
    /\ Len(records) = 2
    /\ records[1].fileFace = <<" ">>
    /\ records[1].sign = <<" ", "s", " ">>
    /\ records[2].fileFace = <<"x">>
    /\ records[2].sign = <<>>
    /\ built.payload = [fileFace |-> <<"x">>, fileSign |-> <<"s">>]

\* the identifiers of a manual list
Numbers(list) == {list[k] : k \in DOMAIN list}

\* position of an identifier in a list that holds it
PositionIn(list, numero) == CHOOSE k \in DOMAIN list : list[k] = numero

\* only trimmed, non-empty identifiers, none twice
WellFormedList(list) ==
    /\ \A k \in DOMAIN list :
            /\ list[k] # <<>>
            /\ list[k][1] \notin Whitespace
            /\ list[k][Len(list[k])] \notin Whitespace
    /\ \A k, h \in DOMAIN list : list[k] = list[h] => k = h

HasFileFor(f, numero) ==
    /\ biometric_dir.exists
    /\ \E k \in DOMAIN biometric_dir.listing :
            /\ biometric_dir.listing[k].marker = MARKERS[f].marker
            /\ \E a \in 1..Len(biometric_dir.listing[k].name) :
                 \E b \in a..Len(biometric_dir.listing[k].name) :
                    SubSeq(biometric_dir.listing[k].name, a, b) = numero

Exited == app = "cli" /\ exit_code # NoExit

\* C30: the CLI process exits with code 1 exactly when the finished run
\* has failed > 0, or the input could not be read, or a header argument
\* was malformed; a run whose groups are all success or skipped exits
\* with code 0.
C30_ExitCode ==
    Exited
        => /\ exit_code = 1
                <=> \/ pc = "done" /\ results.failed > 0
                    \/ ~csv_file.readable
                    \/ \E i \in DOMAIN header_args : Malformed(header_args[i])
           /\ (pc = "done" /\ results.failed = 0) => exit_code = 0

=============================================================================
